---- MODULE Spec2Model ----
(***************************************************************************)
(* AutoDev-AI: the build / verify / repair graph of app/graph/flow.py, its *)
(* node functions (architect, coder, tester, debugger), the sandbox runner *)
(* of app/agents/tester.py and the request driver of app/main.py.          *)
(*                                                                         *)
(* A Python dict is a TLA+ function whose DOMAIN is the set of keys that   *)
(* are present.  A node function maps the state dict to a partial update   *)
(* dict; the compiled graph writes the update into its channels.           *)
(***************************************************************************)
EXTENDS Integers, Sequences, FiniteSets, TLC

VARIABLES
    pc,            \* node about to run, "route", "END", "raised"; "call"/"returned" for a direct call
    state,         \* the state dict threaded through the node functions
    steps,         \* supersteps executed so far by the compiled graph (calls made, for a direct call)
    venv,          \* on-disk marker: <project>/venv/bin/python exists
    node_modules,  \* on-disk marker: <project>/node_modules exists
    trace,         \* history: node names in invocation order
    repairs,       \* history: repair invocations (coder re-invocation or debugger)
    fails,         \* history: failed verdicts produced so far
    sandbox,       \* history: what the most recent tester step did in the sandbox
    route_iter,    \* history: counter value seen by the router when it chose a repair node
    lastRoute,     \* history: the router's most recent return value
    merged,        \* history: operands and result of the most recent {**base, **updates}
    arch_raised,   \* history: the architect's generation call raised
    result_events, \* "result" events emitted on the build stream
    raw,           \* extractor input: [kind, text] (direct extractor calls only)
    extracted,     \* extractor outputs for raw, or NotExtracted
    invocation,    \* what the most recent sandbox invocation executed
    env_created,   \* successful venv creations so far (repeated invocations only)
    builds,        \* parallel build requests: each request's run, and who wrote each directory
    disk           \* generated files in the project directory (repeated invocations only)

vars == <<pc, state, steps, venv, node_modules, trace, repairs, fails,
          sandbox, route_iter, lastRoute, merged, arch_raised, result_events,
          raw, extracted, invocation, env_created, builds, disk>>

----------------------------------------------------------------------------
(* Bounds of the model *)

MaxBlocks == 1      \* file blocks in one generated response
MaxIter == 4        \* largest counter value handed to a directly called function
MaxRuns == 3        \* successive sandbox invocations for one project
MaxText == 5        \* tokens in one raw text handed to an extractor

Paths == {"main.py", "tests/test_main.py"}
Contents == {"v1", "v2"}
Languages == {"python", "node", "cobol"}

----------------------------------------------------------------------------
(* Python dict helpers *)

EmptyDict == [k \in {} |-> 0]

Has(d, k) == k \in DOMAIN d

\* d.get(k, default)
Get(d, k, default) == IF k \in DOMAIN d THEN d[k] ELSE default

\* base.update(updates), and a last-value channel write per key
dict_update(base, updates) ==
    [k \in (DOMAIN base) \cup (DOMAIN updates) |->
        IF k \in DOMAIN updates THEN updates[k] ELSE base[k]]

\* {**base, **updates}
Merge_BaseWins(base, updates) ==
    [k \in (DOMAIN base) \cup (DOMAIN updates) |->
        IF k \in DOMAIN base THEN base[k] ELSE updates[k]]

Merge(base, updates) ==
    [k \in (DOMAIN base) \cup (DOMAIN updates) |->
        IF k \in DOMAIN updates THEN updates[k] ELSE base[k]]

Restrict(d, keys) == [k \in (DOMAIN d) \cap keys |-> d[k]]

\* All dicts from a subset of Paths to Contents
FileMaps == UNION {[P -> Contents] : P \in SUBSET Paths}

----------------------------------------------------------------------------
(* app/graph/state.py: the keys of AgentState are the graph's channels.    *)
(* The compiled StateGraph keeps one last-value channel per declared key   *)
(* and drops every key of an input or of a node's return value that is not *)
(* declared.  "debug_iterations" is not declared.                          *)

Channels == {"user_input", "plan", "tech_decisions", "files", "test_results",
             "errors", "review_feedback", "status"}

ChannelWrite(s, update) == dict_update(s, Restrict(update, Channels))

\* app/main.py: the initial_state dict built by build_project
initial_state ==
    [user_input |-> "request", plan |-> <<>>, tech_decisions |-> EmptyDict,
     files |-> EmptyDict, test_results |-> EmptyDict, status |-> "started",
     debug_iterations |-> 0]

\* The iteration counter as every reader of the state sees it
Iter(s) == Get(s, "debug_iterations", 0)

Passed(s) == Get(Get(s, "test_results", EmptyDict), "tests_passed", FALSE)

Files(s) == Get(s, "files", EmptyDict)

----------------------------------------------------------------------------
(* app/graph/flow.py: the router *)

Ceiling == 3

check_test_results_NoLimit(s) ==
    LET results == Get(s, "test_results", EmptyDict)
        iterations == Get(s, "debug_iterations", 0)
    IN  IF Get(results, "tests_passed", FALSE) THEN "end"
        ELSE IF iterations = 0 THEN "coder"
        ELSE "debugger"

check_test_results_FirstFailureFirst(s) ==
    LET results == Get(s, "test_results", EmptyDict)
        iterations == Get(s, "debug_iterations", 0)
    IN  IF iterations = 0 THEN "coder"
        ELSE IF Get(results, "tests_passed", FALSE) THEN "end"
        ELSE IF iterations >= Ceiling THEN "end"
        ELSE "debugger"

check_test_results_ErrorsEnd(s) ==
    LET results == Get(s, "test_results", EmptyDict)
        iterations == Get(s, "debug_iterations", 0)
    IN  IF Get(results, "tests_passed", FALSE) THEN "end"
        ELSE IF Has(s, "errors") THEN "end"
        ELSE IF iterations >= Ceiling THEN "end"
        ELSE IF iterations = 0 THEN "coder"
        ELSE "debugger"

check_test_results(s) ==
    LET results == Get(s, "test_results", EmptyDict)
        iterations == Get(s, "debug_iterations", 0)
    IN  IF Get(results, "tests_passed", FALSE) THEN "end"
        ELSE IF iterations >= Ceiling THEN "end"
        ELSE IF iterations = 0 THEN "coder"
        ELSE "debugger"

\* the edges added with add_edge: the node scheduled after each node
Edges_CoderToEnd == [architect |-> "coder", coder |-> "END", debugger |-> "tester"]

Edges == [architect |-> "coder", coder |-> "tester", debugger |-> "tester"]

\* the mapping given to add_conditional_edges
EdgeMap == [end |-> "END", coder |-> "coder", debugger |-> "debugger"]

----------------------------------------------------------------------------
(* Generated responses.  A response is held as the sequence of its        *)
(* well-formed <file path="..."> blocks in document order, each a pair     *)
(* <<path, content>>; a response without any block is the empty sequence.  *)

Blocks == Paths \X Contents

Responses == UNION {[1..n -> Blocks] : n \in 0..MaxBlocks}

\* str(e) of the exception chain.invoke raises
Exceptions == {"timeout"}

\* outcome of chain.invoke: it raises, or it returns a response
LLMOutcomes ==
    {[raises |-> TRUE, content |-> <<>>, error |-> e] : e \in Exceptions} \cup
    {[raises |-> FALSE, content |-> r, error |-> "none"] : r \in Responses}

\* app/agents/coder.py parse_xml_output: files[path] = content, in match order
RECURSIVE parse_xml_output(_)
parse_xml_output(resp) ==
    IF resp = <<>> THEN EmptyDict
    ELSE LET n == Len(resp)
             before == parse_xml_output(SubSeq(resp, 1, n - 1))
         IN  dict_update(before, [p \in {resp[n][1]} |-> resp[n][2]])

\* app/agents/tester.py parse_tester_output (the files part of its result)
parse_tester_output(resp) == parse_xml_output(resp)

\* app/agents/debugger.py parse_debugger_output
parse_debugger_output(resp) == parse_xml_output(resp)

----------------------------------------------------------------------------
(* app/agents/architect.py *)

TechDicts == {EmptyDict} \cup {[language |-> l] : l \in Languages}

ArchOutcomes ==
    {[raises |-> TRUE, plan |-> <<>>, tech_decisions |-> EmptyDict]} \cup
    {[raises |-> FALSE, plan |-> <<"step">>, tech_decisions |-> t] : t \in TechDicts}

\* the except branch's fixed defaults
FallbackPlan == <<"1. Initialize project structure", "2. Create main.py">>

FallbackStack ==
    [language |-> "python", framework |-> "fastapi", database |-> "sqlite",
     orm |-> "sqlalchemy"]

architect_agent_RecordsError(s, llm) ==
    IF llm.raises
    THEN [plan |-> FallbackPlan, tech_decisions |-> FallbackStack,
          errors |-> <<"Architect failed">>]
    ELSE [plan |-> llm.plan, tech_decisions |-> llm.tech_decisions]

architect_agent(s, llm) ==
    IF llm.raises
    THEN [plan |-> FallbackPlan, tech_decisions |-> FallbackStack]
    ELSE [plan |-> llm.plan, tech_decisions |-> llm.tech_decisions]

----------------------------------------------------------------------------
(* app/agents/coder.py coder_agent.  The message f"Coder Agent failed:   *)
(* {str(e)}" is the pair of its two parts; the list holds that message.   *)

coder_agent(s, llm) ==
    IF llm.raises
    THEN [errors |-> <<<<"Coder Agent failed: ", llm.error>>>>]
    ELSE [files |-> parse_xml_output(llm.content)]

----------------------------------------------------------------------------
(* app/agents/debugger.py debugger_agent.  state["debug_iterations"] is a  *)
(* subscript: when the key is absent it raises KeyError, in the try block  *)
(* and again in the except handler, so the error leaves the function.      *)

debugger_agent_Reset(s, llm) ==
    IF ~Has(s, "debug_iterations")
    THEN [raised |-> TRUE, update |-> EmptyDict]
    ELSE IF llm.raises
    THEN [raised |-> FALSE, update |-> [debug_iterations |-> 0]]
    ELSE [raised |-> FALSE,
          update |-> [files |-> Merge(Files(s), parse_debugger_output(llm.content)),
                      debug_iterations |-> s["debug_iterations"] + 1]]

debugger_agent(s, llm) ==
    IF ~Has(s, "debug_iterations")
    THEN [raised |-> TRUE, update |-> EmptyDict]
    ELSE IF llm.raises
    THEN [raised |-> FALSE, update |-> [debug_iterations |-> s["debug_iterations"] + 1]]
    ELSE [raised |-> FALSE,
          update |-> [files |-> Merge(Files(s), parse_debugger_output(llm.content)),
                      debug_iterations |-> s["debug_iterations"] + 1]]

----------------------------------------------------------------------------
(* app/agents/tester.py: the sandbox runner *)

CmdOutcomes == {"exit0", "nonzero", "timeout"}

\* What the environment does during one setup_and_run_tests call.  The result
\* of a call depends only on the first step that fails, so the outcomes drawn
\* are those with at most one failing step.
AllOk(t) ==
    [write_ok |-> TRUE,       \* every open()/write() of a file succeeds
     create |-> "exit0",      \* python -m venv venv
     deps |-> "exit0",        \* pip install -r requirements.txt / npm install
     test |-> t,              \* the test command
     log_ok |-> TRUE]         \* writing test_execution.log succeeds

SandboxOutcomes ==
    {AllOk(t) : t \in CmdOutcomes} \cup
    {[AllOk("exit0") EXCEPT !.write_ok = FALSE],
     [AllOk("exit0") EXCEPT !.create = "nonzero"],
     [AllOk("exit0") EXCEPT !.deps = "nonzero"],
     [AllOk("exit0") EXCEPT !.log_ok = FALSE]}

\* run_command: (returncode == 0); any exception, a timeout included, gives False
run_command(outcome) == outcome = "exit0"

\* tester.py line 129: success = False
InitialSuccess_True == TRUE

InitialSuccess == FALSE

NoSandbox == [called |-> FALSE, ran_test |-> FALSE, test |-> "none", raised |-> FALSE]

\* what one sandbox invocation found and executed: had_venv (the interpreter
\* marker existed on entry), write_failed, ran_create / ran_deps / ran_test
\* (the command was started), created (the venv command succeeded),
\* setup_failed (a venv or dependency command that was started exited non-zero),
\* files (the map it was given to write)
NotInvoked ==
    [called |-> FALSE, had_venv |-> FALSE, write_failed |-> FALSE,
     ran_create |-> FALSE, created |-> FALSE, ran_deps |-> FALSE,
     ran_test |-> FALSE, setup_failed |-> FALSE, files |-> EmptyDict]

NoMerge == <<>>

\* tester.py lines 119-123: the loop writing every entry of files; FALSE when
\* an open() or write() raises
WriteFiles_Swallow(o) == TRUE

WriteFiles(o) == o.write_ok

\* The entries the loop has written when an open() raises: the loop follows
\* the dict's insertion order, and {**existing_files, **files_dict} holds the
\* keys of existing_files before the keys only files_dict has.  The entry
\* whose open() raised and every later one are not written; when the map is
\* empty it is os.makedirs(project_path) that raised.
PartialWrites(existing_files, files) ==
    {W \in SUBSET DOMAIN files :
        /\ W # DOMAIN files \/ files = EmptyDict
        /\ (W \ DOMAIN existing_files # {}) => (DOMAIN existing_files \subseteq W)}

\* the project directory after the entries W of files were written: a written
\* path gets the new content, every other file stays as it was
WrittenFiles(dir, files, W) == dict_update(dir, Restrict(files, W))

\* tester.py line 142: if not os.path.exists(python_exe)
NeedsVenv_Always(disk_venv) == TRUE

NeedsVenv(disk_venv) == ~disk_venv

\* setup_and_run_tests: result, disk markers afterwards, and what it executed
setup_and_run_tests(tech_stack, disk_venv, disk_nm, o) ==
    LET language == Get(tech_stack, "language", "python")
        B == [raised |-> FALSE, success |-> FALSE, output |-> "",
              venv |-> disk_venv, node_modules |-> disk_nm, ran_test |-> FALSE,
              ran_create |-> FALSE, created |-> FALSE, ran_deps |-> FALSE,
              setup_failed |-> FALSE]
    IN
    IF ~WriteFiles(o) THEN [B EXCEPT !.raised = TRUE, !.output = "OSError"]
    ELSE IF language = "python" THEN
        LET create == NeedsVenv(disk_venv)
            V == [B EXCEPT !.ran_create = create]
        IN
        IF create /\ ~run_command(o.create)
        THEN [V EXCEPT !.output = "venv log", !.setup_failed = TRUE]
        ELSE
        LET D == [V EXCEPT !.venv = TRUE, !.created = create, !.ran_deps = TRUE]
        IN
        IF ~run_command(o.deps)
        THEN [D EXCEPT !.output = "pip log", !.setup_failed = TRUE]
        ELSE IF ~o.log_ok
        THEN [D EXCEPT !.raised = TRUE, !.output = "OSError", !.ran_test = TRUE]
        ELSE [D EXCEPT !.success = run_command(o.test), !.output = "test log",
                       !.ran_test = TRUE]
    ELSE IF language = "node" THEN
        LET D == [B EXCEPT !.ran_deps = TRUE]
        IN
        IF ~disk_nm /\ ~run_command(o.deps)
        THEN [D EXCEPT !.output = "npm log", !.setup_failed = TRUE]
        ELSE
        LET T == [D EXCEPT !.node_modules = TRUE, !.ran_test = TRUE,
                           !.setup_failed = ~run_command(o.deps)]
        IN
        IF ~o.log_ok
        THEN [T EXCEPT !.raised = TRUE, !.output = "OSError"]
        ELSE [T EXCEPT !.success = run_command(o.test), !.output = "test log"]
    ELSE
        IF ~o.log_ok
        THEN [B EXCEPT !.raised = TRUE, !.output = "OSError"]
        ELSE [B EXCEPT !.success = InitialSuccess]

\* tester.py line 240: the files entry of the update is the map that was
\* given to setup_and_run_tests
ReturnedFiles_OnlyNew(all_files, files_dict) == files_dict

ReturnedFiles(all_files, files_dict) == all_files

\* tester_agent: the update it returns, the disk markers and the sandbox record
tester_agent(s, llm, disk_venv, disk_nm, o) ==
    LET existing_files == Get(s, "files", EmptyDict)
        tech_decisions == Get(s, "tech_decisions", EmptyDict)
        files_dict == parse_tester_output(llm.content)
        all_files == Merge(existing_files, files_dict)
        run == setup_and_run_tests(tech_decisions, disk_venv, disk_nm, o)
        failed(output) ==
            [test_results |-> [tests_passed |-> FALSE, output |-> output,
                               command |-> "unknown"]]
    IN
    IF llm.raises
    THEN [update |-> failed(llm.error), venv |-> disk_venv, node_modules |-> disk_nm,
          sandbox |-> NoSandbox, merged |-> NoMerge, invocation |-> NotInvoked]
    ELSE [update |->
            IF run.raised THEN failed(run.output)
            ELSE [files |-> ReturnedFiles(all_files, files_dict),
                  test_results |-> [tests_passed |-> run.success, output |-> run.output,
                                    command |-> "Automated"]],
          venv |-> run.venv, node_modules |-> run.node_modules,
          sandbox |-> [called |-> TRUE, ran_test |-> run.ran_test,
                       test |-> IF run.ran_test THEN o.test ELSE "none",
                       raised |-> run.raised],
          merged |-> <<existing_files, files_dict, all_files>>,
          invocation |-> [called |-> TRUE, had_venv |-> disk_venv,
                          write_failed |-> ~o.write_ok,
                          ran_create |-> run.ran_create, created |-> run.created,
                          ran_deps |-> run.ran_deps, ran_test |-> run.ran_test,
                          setup_failed |-> run.setup_failed,
                          files |-> all_files]]

----------------------------------------------------------------------------
(* The compiled graph run by app/main.py build_project.                    *)
(* graph_app.astream(initial_state) is called without a config, so the     *)
(* graph stops with GraphRecursionError after RecursionLimit supersteps.   *)

RecursionLimit == 25

\* values of the variables that belong to the other specifications
NoInput == <<>>

NotExtracted == <<>>

NoBuilds == <<>>

NoDisk == <<>>

otherVars == <<raw, extracted, invocation, env_created, builds, disk>>

Nodes == {"architect", "coder", "tester", "debugger"}

Init ==
    /\ pc = "architect"
    /\ state = ChannelWrite(EmptyDict, initial_state)
    /\ steps = 0
    /\ venv \in BOOLEAN
    /\ node_modules \in BOOLEAN
    /\ trace = <<>>
    /\ repairs = 0
    /\ fails = 0
    /\ sandbox = NoSandbox
    /\ route_iter = 0
    /\ lastRoute = "none"
    /\ merged = NoMerge
    /\ arch_raised = FALSE
    /\ result_events = 0
    /\ raw = NoInput
    /\ extracted = NotExtracted
    /\ invocation = NotInvoked
    /\ env_created = 0
    /\ disk = NoDisk
    /\ builds = NoBuilds

Architect ==
    /\ pc = "architect"
    /\ steps < RecursionLimit
    /\ \E llm \in ArchOutcomes :
          /\ state' = ChannelWrite(state, architect_agent(state, llm))
          /\ arch_raised' = llm.raises
    /\ pc' = Edges["architect"]
    /\ steps' = steps + 1
    /\ trace' = Append(trace, "architect")
    /\ UNCHANGED <<venv, node_modules, repairs, fails, sandbox, route_iter,
                   lastRoute, merged, result_events>>
    /\ UNCHANGED otherVars

Coder ==
    /\ pc = "coder"
    /\ steps < RecursionLimit
    /\ \E llm \in LLMOutcomes :
          state' = ChannelWrite(state, coder_agent(state, llm))
    /\ pc' = Edges["coder"]
    /\ steps' = steps + 1
    /\ trace' = Append(trace, "coder")
    /\ repairs' = IF lastRoute = "coder" THEN repairs + 1 ELSE repairs
    /\ UNCHANGED <<venv, node_modules, fails, sandbox, route_iter, lastRoute,
                   merged, arch_raised, result_events>>
    /\ UNCHANGED otherVars

Tester ==
    /\ pc = "tester"
    /\ steps < RecursionLimit
    /\ \E llm \in LLMOutcomes, o \in SandboxOutcomes :
          \E r \in {tester_agent(state, llm, venv, node_modules, o)} :
              /\ state' = ChannelWrite(state, r.update)
              /\ venv' = r.venv
              /\ node_modules' = r.node_modules
              /\ sandbox' = r.sandbox
    /\ pc' = "route"
    /\ steps' = steps + 1
    /\ trace' = Append(trace, "tester")
    /\ fails' = IF Passed(state') THEN fails ELSE fails + 1
    /\ UNCHANGED <<repairs, route_iter, lastRoute, merged, arch_raised,
                   result_events>>
    /\ UNCHANGED otherVars

\* the conditional edge leaving the tester node
Route ==
    /\ pc = "route"
    /\ lastRoute' = check_test_results(state)
    /\ pc' = EdgeMap[check_test_results(state)]
    /\ route_iter' = Iter(state)
    /\ UNCHANGED <<state, steps, venv, node_modules, trace, repairs, fails,
                   sandbox, merged, arch_raised, result_events>>
    /\ UNCHANGED otherVars

Debugger ==
    /\ pc = "debugger"
    /\ steps < RecursionLimit
    /\ \E llm \in LLMOutcomes :
          \E r \in {debugger_agent(state, llm)} :
              /\ state' = ChannelWrite(state, r.update)
              /\ pc' = IF r.raised THEN "raised" ELSE Edges["debugger"]
    /\ steps' = steps + 1
    /\ trace' = Append(trace, "debugger")
    /\ repairs' = repairs + 1
    /\ UNCHANGED <<venv, node_modules, fails, sandbox, route_iter, lastRoute,
                   merged, arch_raised, result_events>>
    /\ UNCHANGED otherVars

\* the superstep budget is used up while a node is still scheduled
GraphRecursionError ==
    /\ pc \in Nodes
    /\ steps = RecursionLimit
    /\ pc' = "raised"
    /\ UNCHANGED <<state, steps, venv, node_modules, trace, repairs, fails,
                   sandbox, route_iter, lastRoute, merged, arch_raised,
                   result_events>>
    /\ UNCHANGED otherVars

\* app/main.py event_generator after the astream loop: save_project_to_disk,
\* the summary file, then the "result" event.  A write that raises ends the
\* stream without a result.
Finish ==
    /\ pc = "END"
    /\ \E write_ok \in BOOLEAN :
          /\ pc' = IF write_ok THEN "done" ELSE "save_failed"
          /\ result_events' = IF write_ok THEN result_events + 1 ELSE result_events
    /\ UNCHANGED <<state, steps, venv, node_modules, trace, repairs, fails,
                   sandbox, route_iter, lastRoute, merged, arch_raised>>
    /\ UNCHANGED otherVars

Next == Architect \/ Coder \/ Tester \/ Route \/ GraphRecursionError \/ Finish

Spec == Init /\ [][Next]_vars

\* The debugger node is wired into the graph but no run of Spec schedules it
\* (DebuggerNeverScheduled holds of SpecGraph, whose Next has every node).
NextGraph == Next \/ Debugger

SpecGraph == Init /\ [][NextGraph]_vars

DebuggerNeverScheduled == pc # "debugger"

----------------------------------------------------------------------------
(* Direct calls.  The node functions and the router are plain functions of *)
(* a dict: here one of them is called once on a state dict drawn from      *)
(* CallStates (the counter key present or not, an errors list left by an   *)
(* earlier step or none) and the caller folds the returned update into its *)
(* dict with dict.update, as app/main.py does with current_state.          *)

Verdicts ==
    {EmptyDict,
     [tests_passed |-> TRUE, output |-> "test log", command |-> "Automated"],
     [tests_passed |-> FALSE, output |-> "test log", command |-> "Automated"]}

\* the errors list a coder step left earlier in the run, when its generation
\* call raised with another text
EarlierErrors == <<<<"Coder Agent failed: ", "quota exceeded">>>>

StatesWith(techs, errs) ==
    {dict_update(dict_update([user_input |-> "request", files |-> f,
            test_results |-> t, tech_decisions |-> td], c), e) :
        f \in FileMaps, t \in Verdicts, td \in techs,
        c \in {EmptyDict} \cup {[debug_iterations |-> i] : i \in 0..MaxIter},
        e \in errs}

\* every technology choice without an errors list, and the default technology
\* with the errors list of an earlier failure
CallStates ==
    StatesWith(TechDicts, {EmptyDict}) \cup
    StatesWith({EmptyDict}, {[errors |-> EarlierErrors]})

InitCall ==
    /\ pc = "call"
    /\ state \in CallStates
    /\ steps = 0
    /\ venv \in BOOLEAN
    /\ node_modules \in BOOLEAN
    /\ trace = <<>>
    /\ repairs = 0
    /\ fails = 0
    /\ sandbox = NoSandbox
    /\ route_iter = 0
    /\ lastRoute = "none"
    /\ merged = NoMerge
    /\ arch_raised = FALSE
    /\ result_events = 0
    /\ raw = NoInput
    /\ extracted = NotExtracted
    /\ invocation = NotInvoked
    /\ env_created = 0
    /\ disk = NoDisk
    /\ builds = NoBuilds

CallRouter ==
    /\ pc = "call"
    /\ lastRoute' = check_test_results(state)
    /\ route_iter' = Iter(state)
    /\ steps' = steps + 1
    /\ trace' = Append(trace, "router")
    /\ pc' = "returned"
    /\ UNCHANGED <<state, venv, node_modules, repairs, fails, sandbox, merged,
                   arch_raised, result_events>>
    /\ UNCHANGED otherVars

CallCoder ==
    /\ pc = "call"
    /\ \E llm \in LLMOutcomes :
          state' = dict_update(state, coder_agent(state, llm))
    /\ steps' = steps + 1
    /\ trace' = Append(trace, "coder")
    /\ pc' = "returned"
    /\ UNCHANGED <<venv, node_modules, repairs, fails, sandbox, route_iter,
                   lastRoute, merged, arch_raised, result_events>>
    /\ UNCHANGED otherVars

CallTester ==
    /\ pc = "call"
    /\ \E llm \in LLMOutcomes, o \in SandboxOutcomes :
          \E r \in {tester_agent(state, llm, venv, node_modules, o)} :
              /\ state' = dict_update(state, r.update)
              /\ venv' = r.venv
              /\ node_modules' = r.node_modules
              /\ sandbox' = r.sandbox
              /\ merged' = r.merged
    /\ steps' = steps + 1
    /\ trace' = Append(trace, "tester")
    /\ fails' = IF Passed(state') THEN fails ELSE fails + 1
    /\ pc' = "returned"
    /\ UNCHANGED <<repairs, route_iter, lastRoute, arch_raised, result_events>>
    /\ UNCHANGED otherVars

CallDebugger ==
    /\ pc = "call"
    /\ \E llm \in LLMOutcomes :
          \E r \in {debugger_agent(state, llm)} :
              /\ state' = dict_update(state, r.update)
              /\ pc' = IF r.raised THEN "raised" ELSE "returned"
              /\ merged' = IF Has(r.update, "files")
                           THEN <<Files(state), parse_debugger_output(llm.content),
                                  r.update["files"]>>
                           ELSE NoMerge
    /\ steps' = steps + 1
    /\ trace' = Append(trace, "debugger")
    /\ repairs' = repairs + 1
    /\ UNCHANGED <<venv, node_modules, fails, sandbox, route_iter, lastRoute,
                   arch_raised, result_events>>
    /\ UNCHANGED otherVars

NextCall == CallRouter \/ CallCoder \/ CallTester \/ CallDebugger

SpecCall == InitCall /\ [][NextCall]_vars

\* the graph run and the direct calls together
InitAll == Init \/ InitCall

NextAll == Next \/ NextCall

SpecAll == InitAll /\ [][NextAll]_vars

----------------------------------------------------------------------------
(* Successive sandbox invocations for one project.  The graph loop calls   *)
(* tester_agent once per iteration against the same project directory;     *)
(* here tester_agent is called up to MaxRuns times in a row on its own     *)
(* result, with what each invocation executed kept in invocation.          *)

SandboxStates ==
    {[user_input |-> "request", files |-> EmptyDict, tech_decisions |-> td] :
        td \in TechDicts \cup {FallbackStack}}

InitSandbox ==
    /\ pc = "sandbox"
    /\ state \in SandboxStates
    /\ steps = 0
    /\ venv \in BOOLEAN
    /\ node_modules \in BOOLEAN
    /\ trace = <<>>
    /\ repairs = 0
    /\ fails = 0
    /\ sandbox = NoSandbox
    /\ route_iter = 0
    /\ lastRoute = "none"
    /\ merged = NoMerge
    /\ arch_raised = FALSE
    /\ result_events = 0
    /\ raw = NoInput
    /\ extracted = NotExtracted
    /\ invocation = NotInvoked
    /\ env_created = 0
    /\ disk = NoDisk
    /\ builds = NoBuilds

InvokeTester ==
    /\ pc = "sandbox"
    /\ steps < MaxRuns
    /\ \E llm \in LLMOutcomes, o \in SandboxOutcomes :
          \E r \in {tester_agent(state, llm, venv, node_modules, o)} :
              /\ state' = dict_update(state, r.update)
              /\ venv' = r.venv
              /\ node_modules' = r.node_modules
              /\ sandbox' = r.sandbox
              /\ invocation' = r.invocation
              /\ env_created' = IF r.invocation.created THEN env_created + 1
                                ELSE env_created
    /\ steps' = steps + 1
    /\ trace' = Append(trace, "tester")
    /\ fails' = IF Passed(state') THEN fails ELSE fails + 1
    /\ UNCHANGED <<pc, repairs, route_iter, lastRoute, merged, arch_raised,
                   result_events, raw, extracted, builds, disk>>

NextSandbox == InvokeTester

SpecSandbox == InitSandbox /\ [][NextSandbox]_vars

----------------------------------------------------------------------------
(* The project directory.  The same successive invocations, started with   *)
(* the files the coder left in the state and a directory that is new or    *)
(* was used before, with the generated files of the directory kept in      *)
(* disk.  When the router would end the run the files are saved as         *)
(* event_generator does.                                                   *)

\* The project directory when a run starts: GENERATION_DIR/<project_name> is
\* kept between runs, so it is empty or holds what an earlier run of the same
\* project wrote.
EarlierRuns == {EmptyDict, [p \in Paths |-> "v1"]}

\* the state of a Python project when the tester is first called
DiskStates ==
    {[user_input |-> "request", files |-> f, tech_decisions |-> EmptyDict] :
        f \in FileMaps}

InitDisk ==
    /\ pc = "sandbox"
    /\ state \in DiskStates
    /\ steps = 0
    /\ venv \in BOOLEAN
    /\ node_modules = FALSE
    /\ trace = <<>>
    /\ repairs = 0
    /\ fails = 0
    /\ sandbox = NoSandbox
    /\ route_iter = 0
    /\ lastRoute = "none"
    /\ merged = NoMerge
    /\ arch_raised = FALSE
    /\ result_events = 0
    /\ raw = NoInput
    /\ extracted = NotExtracted
    /\ invocation = NotInvoked
    /\ env_created = 0
    /\ disk \in EarlierRuns
    /\ builds = NoBuilds

\* tester_agent with the files its write loop leaves in the directory
DiskTester ==
    /\ pc = "sandbox"
    /\ steps < MaxRuns
    /\ \E llm \in LLMOutcomes, o \in SandboxOutcomes :
          \E r \in {tester_agent(state, llm, venv, node_modules, o)} :
              /\ state' = dict_update(state, r.update)
              /\ venv' = r.venv
              /\ node_modules' = r.node_modules
              /\ sandbox' = r.sandbox
              /\ invocation' = r.invocation
              /\ \E W \in IF ~r.invocation.called THEN {{}}
                           ELSE IF r.invocation.write_failed
                           THEN PartialWrites(Files(state), r.invocation.files)
                           ELSE {DOMAIN r.invocation.files} :
                    disk' = WrittenFiles(disk, r.invocation.files, W)
    /\ steps' = steps + 1
    /\ trace' = Append(trace, "tester")
    /\ fails' = IF Passed(state') THEN fails ELSE fails + 1
    /\ UNCHANGED <<pc, repairs, route_iter, lastRoute, merged, arch_raised,
                   result_events, raw, extracted, env_created, builds>>

\* app/main.py save_project_to_disk: the same directory, the same write loop
save_project_to_disk(dir, files, W) == WrittenFiles(dir, files, W)

\* The router ends the run and event_generator saves current_state's files;
\* a write that raises leaves the entries written before it.
SaveProject ==
    /\ pc = "sandbox"
    /\ check_test_results(state) = "end"
    /\ \E write_ok \in BOOLEAN :
          /\ pc' = IF write_ok THEN "done" ELSE "save_failed"
          /\ \E W \in IF write_ok THEN {DOMAIN Files(state)}
                       ELSE PartialWrites(Files(state), Files(state)) :
                disk' = save_project_to_disk(disk, Files(state), W)
    /\ UNCHANGED <<state, steps, venv, node_modules, trace, repairs, fails, sandbox,
                   route_iter, lastRoute, merged, arch_raised, result_events, raw,
                   extracted, invocation, env_created, builds>>

NextDisk == DiskTester \/ SaveProject

SpecDisk == InitDisk /\ [][NextDisk]_vars

----------------------------------------------------------------------------
(* Properties *)

Range(f) == {f[i] : i \in DOMAIN f}

GraphTerminated == pc \in {"END", "raised"}

\* C1: whatever the verdicts and the adapter outcomes, a run of the graph
\* ends at END (it is never cut off by an error) and no more than Ceiling
\* repair invocations (coder re-invocation or debugger) take place.
C1_EndWithinCeiling == pc # "raised" /\ repairs <= Ceiling

\* C2: in a run whose verifications all fail, no more than Ceiling repair
\* cycles are performed, no exception reaches the caller, and the run ends
\* having performed exactly Ceiling repair cycles with tests_passed false.
C2_AllFailThreeRepairs ==
    (fails > 0 /\ ~Passed(state)) =>
        /\ repairs <= Ceiling
        /\ pc # "raised"
        /\ (pc = "END" => repairs = Ceiling)

\* C3: a run whose verification fails twice and then passes ends after
\* exactly two repair cycles with debug_iterations = 2 and tests_passed true.
C3_FailTwiceThenPass ==
    (pc = "END" /\ fails = 2 /\ Passed(state)) =>
        (repairs = 2 /\ Iter(state) = 2)

\* C4: when a repair step chosen by the router has run and the next
\* verification is about to start, the iteration counter is one more than
\* the value the router saw.
C4_RepairIncrementsCounter ==
    (pc = "tester" /\ repairs > 0) => Iter(state) = route_iter + 1

\* C5: between two consecutive states the iteration counter never decreases,
\* whichever function ran and whether its generation call succeeded or raised.
C5_CounterNeverDecreases == [][Iter(state') >= Iter(state)]_vars

C5_Witness ==
    /\ pc = "returned"
    /\ trace = <<"debugger">>
    /\ Iter(state) = Ceiling

\* C6: a router evaluation in a state with tests_passed true or with
\* debug_iterations >= Ceiling returns "end"; in the graph the next node is
\* then END, and from END no node is invoked.
RouterStep == pc = "route" \/ (pc = "call" /\ trace' = Append(trace, "router"))

C6_RouterEnds ==
    [][/\ (RouterStep /\ (Passed(state) \/ Iter(state) >= Ceiling)) =>
            (lastRoute' = "end" /\ (pc = "route" => pc' = "END"))
       /\ pc = "END" => (pc' \in {"END", "done", "save_failed"} /\ trace' = trace)]_vars

C6_Witness ==
    /\ lastRoute = "end"
    /\ ~Passed(state)
    /\ route_iter >= Ceiling

\* C7: a path that is a key of the files map stays a key in every later
\* state of the run.
C7_PathsKept == [][DOMAIN Files(state) \subseteq DOMAIN Files(state')]_vars

\* C8: the merge {**base, **updates} of the tester and debugger steps has
\* the union of the key sets as its keys, the update's value at every key
\* of updates and base's value at every other key; merging the empty map
\* returns base.
C8_MergeUnionOverride ==
    merged # NoMerge =>
        LET base == merged[1]
            updates == merged[2]
            out == merged[3]
        IN  /\ DOMAIN out = (DOMAIN base) \cup (DOMAIN updates)
            /\ \A k \in DOMAIN updates : out[k] = updates[k]
            /\ \A k \in (DOMAIN base) \ (DOMAIN updates) : out[k] = base[k]
            /\ (updates = EmptyDict => out = base)

C8_Witness ==
    /\ merged # NoMerge
    /\ \E k \in (DOMAIN merged[1]) \cap (DOMAIN merged[2]) :
          /\ merged[1][k] # merged[2][k]
          /\ merged[3][k] = merged[2][k]
    /\ (DOMAIN merged[1]) \ (DOMAIN merged[2]) # {}

C10_FirstPassEnds ==
    (fails = 0 /\ Passed(state)) =>
        /\ trace = <<"architect", "coder", "tester">>
        /\ pc \in {"route", "END", "done", "save_failed"}
        /\ repairs = 0
        /\ Iter(state) = 0

C10_Witness ==
    /\ pc = "END"
    /\ fails = 0
    /\ Passed(state)
    /\ trace = <<"architect", "coder", "tester">>



----------------------------------------------------------------------------
(* The extractors on raw text.  A text is a sequence of tokens: the opening *)
(* tag of a file block (one token per path, standing for a well-formed      *)
(* <file path="...">), the closing tag </file>, and the characters the      *)
(* sanitizers look at: newline (the whitespace of \s and strip()), the      *)
(* backslash, the letter n, the double quote ("q"), the single quote ("sq") *)
(* and the curly double quotes ("lq", "rq").                                *)

OpenTags == {"<file path=a>", "<file path=b>"}
CloseTag == "</file>"

\* the characters of the sanitizers around blocks of one path
Tokens == {"<file path=a>", CloseTag, "nl", "bs", "n", "q"}

\* blocks of two paths with a one-letter or an empty body
PathTokens == OpenTags \cup {CloseTag, "n"}

\* the characters a block's content can be wrapped in
QuoteTokens == {"q", "sq", "lq", "rq", "n"}

PathOf(tag) == IF tag = "<file path=a>" THEN "a" ELSE "b"

TextsOver(alphabet, n) == UNION {[1..k -> alphabet] : k \in 0..n}

\* one block whose content is made of quote characters and letters
QuoteTexts ==
    {<<"<file path=a>">> \o c \o <<CloseTag>> : c \in TextsOver(QuoteTokens, MaxText - 2)}

Texts == TextsOver(Tokens, MaxText) \cup TextsOver(PathTokens, MaxText) \cup QuoteTexts

\* the values handed to an extractor: a str, a list of str fragments, or
\* another object (repr: what str() gives for it)
Str(t) == [kind |-> "str", text |-> t]

List(items) == [kind |-> "list", items |-> items]

Other(t) == [kind |-> "other", repr |-> t]

IsSpace(c) == c = "nl"

RECURSIVE lstrip(_)
lstrip(s) == IF s # <<>> /\ IsSpace(Head(s)) THEN lstrip(Tail(s)) ELSE s

RECURSIVE rstrip(_)
rstrip(s) ==
    IF s # <<>> /\ IsSpace(s[Len(s)]) THEN rstrip(SubSeq(s, 1, Len(s) - 1)) ELSE s

strip(s) == rstrip(lstrip(s))

\* "\n" in s
HasNewline(s) == \E i \in 1..Len(s) : s[i] = "nl"

\* "\\n" in s
HasEscapedNewline(s) == \E i \in 1..(Len(s) - 1) : s[i] = "bs" /\ s[i + 1] = "n"

\* str.replace for a two-character old
RECURSIVE replace(_, _, _)
replace(s, old, new) ==
    IF Len(s) < 2 THEN s
    ELSE IF SubSeq(s, 1, 2) = old THEN new \o replace(SubSeq(s, 3, Len(s)), old, new)
    ELSE <<Head(s)>> \o replace(Tail(s), old, new)

\* content.startswith('"') and content.endswith('"'), then content[1:-1]
StripQuotes(s) ==
    IF s # <<>> /\ Head(s) = "q" /\ s[Len(s)] = "q"
    THEN SubSeq(s, 2, Len(s) - 1)
    ELSE s

\* the coder's if / elif: wrapping double quotes, else wrapping single quotes
StripEitherQuotes(s) ==
    IF s # <<>> /\ Head(s) = "q" /\ s[Len(s)] = "q"
    THEN SubSeq(s, 2, Len(s) - 1)
    ELSE IF s # <<>> /\ Head(s) = "sq" /\ s[Len(s)] = "sq"
    THEN SubSeq(s, 2, Len(s) - 1)
    ELSE s

FixNewlines(s) ==
    IF HasEscapedNewline(s) /\ ~HasNewline(s) THEN replace(s, <<"bs", "n">>, <<"nl">>)
    ELSE s

\* app/agents/coder.py sanitize_content
sanitize_content(content) == FixNewlines(StripEitherQuotes(strip(content)))

\* app/agents/tester.py sanitize_content
sanitize_content_tester(content) ==
    replace(replace(FixNewlines(StripQuotes(strip(content))),
                    <<"bs", "sq">>, <<"sq">>),
            <<"bs", "q">>, <<"q">>)

\* "".join(str(item) for item in text)
JoinFragments_FirstOnly(items) == IF items = <<>> THEN <<>> ELSE Head(items)

RECURSIVE JoinFragments(_)
JoinFragments(items) ==
    IF items = <<>> THEN <<>> ELSE Head(items) \o JoinFragments(Tail(items))

\* the two isinstance checks at the head of each extractor
coerce_ListOnly(input) ==
    IF input.kind = "list" THEN Str(JoinFragments(input.items)) ELSE input

coerce(input) ==
    IF input.kind = "list" THEN Str(JoinFragments(input.items))
    ELSE IF input.kind # "str" THEN Str(input.repr)
    ELSE input

Min(S) == CHOOSE i \in S : \A j \in S : i <= j

\* re.findall(r'<file\s+path="([^"]+)">\s*(.*?)\s*</file>', text, re.DOTALL):
\* the leftmost opening tag, the lazy body up to the first closing tag after
\* it without the whitespace at either end, then on from behind that tag
RECURSIVE findall(_)
findall(t) ==
    LET opens == {i \in 1..Len(t) : t[i] \in OpenTags}
    IN  IF opens = {} THEN <<>>
        ELSE LET i == Min(opens)
                 closes == {j \in (i + 1)..Len(t) : t[j] = CloseTag}
             IN  IF closes = {} THEN <<>>
                 ELSE LET j == Min(closes)
                      IN  <<[path |-> PathOf(t[i]),
                             content |-> strip(SubSeq(t, i + 1, j - 1))]>>
                              \o findall(SubSeq(t, j + 1, Len(t)))

\* files[path] = <sanitized content>
StoreBlock_SkipEmpty(files, path, content) ==
    IF content = <<>> THEN files ELSE dict_update(files, [p \in {path} |-> content])

StoreBlock_KeepFirst(files, path, content) ==
    IF path \in DOMAIN files THEN files ELSE dict_update(files, [p \in {path} |-> content])

StoreBlock(files, path, content) == dict_update(files, [p \in {path} |-> content])

\* the result of one extractor call; re.findall raises TypeError when it is
\* handed anything but a str
Raised == [raised |-> TRUE, files |-> EmptyDict]

Returned(files) == [raised |-> FALSE, files |-> files]

RECURSIVE CoderBlocks(_, _)
CoderBlocks(matches, files) ==
    IF matches = <<>> THEN files
    ELSE CoderBlocks(Tail(matches),
            StoreBlock(files, Head(matches).path, sanitize_content(Head(matches).content)))

parse_xml_output_text(input) ==
    LET text == coerce(input)
    IN  IF text.kind # "str" THEN Raised
        ELSE Returned(CoderBlocks(findall(text.text), EmptyDict))

RECURSIVE TesterBlocks(_, _)
TesterBlocks(matches, files) ==
    IF matches = <<>> THEN files
    ELSE TesterBlocks(Tail(matches),
            StoreBlock(files, Head(matches).path,
                       sanitize_content_tester(Head(matches).content)))

parse_tester_output_text(input) ==
    LET text == coerce(input)
    IN  IF text.kind # "str" THEN Raised
        ELSE Returned(TesterBlocks(findall(text.text), EmptyDict))

RECURSIVE DebuggerBlocks(_, _)
DebuggerBlocks(matches, files) ==
    IF matches = <<>> THEN files
    ELSE DebuggerBlocks(Tail(matches),
            StoreBlock(files, Head(matches).path,
                       StripQuotes(strip(Head(matches).content))))

\* the escaped-newline fix is applied once, to the whole text
parse_debugger_output_text(input) ==
    LET text == coerce(input)
    IN  IF text.kind # "str" THEN Raised
        ELSE Returned(DebuggerBlocks(findall(FixNewlines(text.text)), EmptyDict))

\* One extractor call on raw, handed over as a str, as another object whose
\* str() is raw, or as a list of two fragments whose concatenation is raw.
Inputs(t) ==
    {Str(t), Other(t)} \cup
    {List(<<SubSeq(t, 1, cut), SubSeq(t, cut + 1, Len(t))>>) : cut \in 0..Len(t)}

InitExtract ==
    /\ pc = "extract"
    /\ raw \in Texts
    /\ extracted = NotExtracted
    /\ state = EmptyDict
    /\ steps = 0
    /\ venv = FALSE
    /\ node_modules = FALSE
    /\ trace = <<>>
    /\ repairs = 0
    /\ fails = 0
    /\ sandbox = NoSandbox
    /\ route_iter = 0
    /\ lastRoute = "none"
    /\ merged = NoMerge
    /\ arch_raised = FALSE
    /\ result_events = 0
    /\ invocation = NotInvoked
    /\ env_created = 0
    /\ disk = NoDisk
    /\ builds = NoBuilds

extractVars == <<state, steps, venv, node_modules, trace, repairs, fails, sandbox,
                 route_iter, lastRoute, merged, arch_raised, result_events,
                 invocation, env_created, builds, disk>>

ExtractCoder ==
    /\ pc = "extract"
    /\ \E input \in Inputs(raw) :
          extracted' = [by |-> "coder", input |-> input,
                        out |-> parse_xml_output_text(input)]
    /\ pc' = "extracted"
    /\ UNCHANGED <<raw, extractVars>>

ExtractTester ==
    /\ pc = "extract"
    /\ \E input \in Inputs(raw) :
          extracted' = [by |-> "tester", input |-> input,
                        out |-> parse_tester_output_text(input)]
    /\ pc' = "extracted"
    /\ UNCHANGED <<raw, extractVars>>

ExtractDebugger ==
    /\ pc = "extract"
    /\ \E input \in Inputs(raw) :
          extracted' = [by |-> "debugger", input |-> input,
                        out |-> parse_debugger_output_text(input)]
    /\ pc' = "extracted"
    /\ UNCHANGED <<raw, extractVars>>

NextExtract == ExtractCoder \/ ExtractTester \/ ExtractDebugger

SpecExtract == InitExtract /\ [][NextExtract]_vars

----------------------------------------------------------------------------
(* Build requests in parallel.  Every POST /build starts its own run of the *)
(* graph (app/main.py build_project); the node functions are synchronous,   *)
(* so under astream each runs in a worker thread while the event loop       *)
(* serves the other request.  A sandbox invocation therefore takes two      *)
(* steps here: it starts (and writes its files into the directory named by  *)
(* project_name) and later returns.  Nothing in build_project,              *)
(* tester_agent or setup_and_run_tests takes a lock.                        *)

Requests == {"r1", "r2"}
Projects == {"p", "q"}

\* os.path.join(settings.GENERATION_DIR, project_name)
project_path(project_name) == project_name

Build(project_name) ==
    [project |-> project_name, pc |-> "architect", steps |-> 0, passed |-> FALSE]

InitPar ==
    /\ pc = "parallel"
    /\ builds \in {[req |-> b, wrote |-> [d \in Projects |-> {}]] :
                      b \in [Requests -> {Build(p) : p \in Projects}]}
    /\ state = EmptyDict
    /\ steps = 0
    /\ venv = FALSE
    /\ node_modules = FALSE
    /\ trace = <<>>
    /\ repairs = 0
    /\ fails = 0
    /\ sandbox = NoSandbox
    /\ route_iter = 0
    /\ lastRoute = "none"
    /\ merged = NoMerge
    /\ arch_raised = FALSE
    /\ result_events = 0
    /\ raw = NoInput
    /\ extracted = NotExtracted
    /\ invocation = NotInvoked
    /\ env_created = 0
    /\ disk = NoDisk

parVars == <<pc, state, steps, venv, node_modules, trace, repairs, fails, sandbox,
             route_iter, lastRoute, merged, arch_raised, result_events, raw,
             extracted, invocation, env_created, disk>>

InSandbox(r) == builds.req[r].pc = "sandbox"

ParArchitect ==
    \E r \in Requests :
        /\ builds.req[r].pc = "architect"
        /\ builds.req[r].steps < RecursionLimit
        /\ builds' = [builds EXCEPT !.req[r].pc = "coder", !.req[r].steps = @ + 1]
        /\ UNCHANGED parVars

ParCoder ==
    \E r \in Requests :
        /\ builds.req[r].pc = "coder"
        /\ builds.req[r].steps < RecursionLimit
        /\ builds' = [builds EXCEPT !.req[r].pc = "tester", !.req[r].steps = @ + 1]
        /\ UNCHANGED parVars

\* tester_agent up to the start of setup_and_run_tests, which writes the
\* files into the project's directory (or the generation call raises and the
\* tester returns a failed verdict at once)
ParTesterStart ==
    \E r \in Requests :
        /\ builds.req[r].pc = "tester"
        /\ builds.req[r].steps < RecursionLimit
        /\ \E llm_raises \in BOOLEAN :
              builds' =
                 IF llm_raises
                 THEN [builds EXCEPT !.req[r].pc = "route", !.req[r].steps = @ + 1,
                                     !.req[r].passed = FALSE]
                 ELSE [builds EXCEPT
                         !.req[r].pc = "sandbox",
                         !.wrote[project_path(builds.req[r].project)] = @ \cup {r}]
        /\ UNCHANGED parVars

\* setup_and_run_tests returns and tester_agent returns its verdict
ParTesterReturn ==
    \E r \in Requests :
        /\ InSandbox(r)
        /\ \E success \in BOOLEAN :
              builds' = [builds EXCEPT !.req[r].pc = "route", !.req[r].steps = @ + 1,
                                       !.req[r].passed = success]
        /\ UNCHANGED parVars

\* the conditional edge: the counter the router reads is 0 in every graph run
ParRoute ==
    \E r \in Requests :
        /\ builds.req[r].pc = "route"
        /\ builds' = [builds EXCEPT !.req[r].pc =
              EdgeMap[check_test_results(
                  [test_results |-> [tests_passed |-> builds.req[r].passed]])]]
        /\ UNCHANGED parVars

ParGraphRecursionError ==
    \E r \in Requests :
        /\ builds.req[r].pc \in Nodes
        /\ builds.req[r].steps = RecursionLimit
        /\ builds' = [builds EXCEPT !.req[r].pc = "raised"]
        /\ UNCHANGED parVars

\* save_project_to_disk writes the final files into the same directory
ParFinish ==
    \E r \in Requests :
        /\ builds.req[r].pc = "END"
        /\ builds' = [builds EXCEPT
                        !.req[r].pc = "done",
                        !.wrote[project_path(builds.req[r].project)] = @ \cup {r}]
        /\ UNCHANGED parVars

NextPar ==
    \/ ParArchitect
    \/ ParCoder
    \/ ParTesterStart
    \/ ParTesterReturn
    \/ ParRoute
    \/ ParGraphRecursionError
    \/ ParFinish

SpecPar == InitPar /\ [][NextPar]_vars

----------------------------------------------------------------------------
\* C11: when the architect's generation call raises (a response that cannot
\* be parsed raises inside the same try block), the architect step writes the
\* fixed fallback plan and stack, the run goes on to the coder, and no errors
\* entry is written.
C11_ArchitectFallback ==
    arch_raised =>
        /\ state["plan"] = FallbackPlan
        /\ state["tech_decisions"] = FallbackStack
        /\ trace # <<>>
        /\ trace = <<"architect">> => (pc = "coder" /\ ~Has(state, "errors"))

C11_Witness ==
    /\ arch_raised
    /\ trace = <<"architect">>
    /\ pc = "coder"
    /\ state["plan"] = FallbackPlan

\* C12: every run ends with exactly one "result" event emitted after the
\* graph has terminated, and a run whose tests never pass does not end in an
\* exception.
C12_OneResult ==
    /\ pc # "raised"
    /\ result_events <= 1
    /\ (pc = "done") = (result_events = 1)

\* C13: an extractor call never raises, whatever it is handed (a str, a list
\* of fragments, another object), and returns the empty map when the text has
\* no opening tag followed by a closing tag.
NoBlock(t) ==
    ~\E i, j \in 1..Len(t) : i < j /\ t[i] \in OpenTags /\ t[j] = CloseTag

C13_ExtractorNeverRaises ==
    pc = "extracted" =>
        /\ ~extracted.out.raised
        /\ NoBlock(raw) => extracted.out.files = EmptyDict

C13_Witness ==
    /\ pc = "extracted"
    /\ extracted.input.kind = "other"
    /\ raw # <<>>
    /\ NoBlock(raw)
    /\ ~extracted.out.raised
    /\ extracted.out.files = EmptyDict

\* C14: an extractor handed a list of fragments returns what it returns for
\* the single str that is the fragments' concatenation.
ExtractorOf(by, input) ==
    CASE by = "coder" -> parse_xml_output_text(input)
      [] by = "tester" -> parse_tester_output_text(input)
      [] by = "debugger" -> parse_debugger_output_text(input)

C14_ListIsConcatenation ==
    (pc = "extracted" /\ extracted.input.kind = "list") =>
        extracted.out = ExtractorOf(extracted.by, Str(raw))

C14_Witness ==
    /\ pc = "extracted"
    /\ extracted.input.kind = "list"
    /\ \E i \in 1..Len(extracted.input.items[1]) :
          extracted.input.items[1][i] \in OpenTags
    /\ \A i \in 1..Len(extracted.input.items[1]) :
          extracted.input.items[1][i] # CloseTag
    /\ extracted.input.items[2] # <<>>
    /\ DOMAIN extracted.out.files # {}

\* C15: a block whose body is empty keeps its path in the extracted map, and
\* when it is the last block of its path the value is the empty string.
LastOfPath(ms, i) == \A k \in (i + 1)..Len(ms) : ms[k].path # ms[i].path

C15_EmptyBodyKept ==
    pc = "extracted" =>
        LET ms == findall(raw)
            files == extracted.out.files
        IN  \A i \in 1..Len(ms) :
                ms[i].content = <<>> =>
                    /\ ms[i].path \in DOMAIN files
                    /\ LastOfPath(ms, i) => files[ms[i].path] = <<>>

C15_Witness ==
    /\ pc = "extracted"
    /\ \E i \in 1..(Len(raw) - 1) : raw[i] \in OpenTags /\ raw[i + 1] = CloseTag
    /\ "a" \in DOMAIN extracted.out.files
    /\ extracted.out.files["a"] = <<>>

\* C16: for every block of the text whose content has the escape sequence
\* backslash-n and no literal newline, the content extracted for it has
\* literal newlines and no backslash-n left, whatever surrounds the block.
C16_EscapedNewlinesFixed ==
    pc = "extracted" =>
        LET ms == findall(raw)
            files == extracted.out.files
        IN  \A i \in 1..Len(ms) :
                (/\ LastOfPath(ms, i)
                 /\ HasEscapedNewline(ms[i].content)
                 /\ ~HasNewline(ms[i].content)) =>
                    /\ ms[i].path \in DOMAIN files
                    /\ HasNewline(files[ms[i].path])
                    /\ ~HasEscapedNewline(files[ms[i].path])

\* C17: a sandbox invocation in which the venv command or the dependency
\* installation exited non-zero gives the verdict passed == false with that
\* command's log.
C17_SetupFailureFails ==
    (invocation.called /\ invocation.setup_failed) =>
        /\ ~Passed(state)
        /\ Get(Get(state, "test_results", EmptyDict), "output", "")
              \in {"venv log", "pip log", "npm log"}

\* C18: when writing the files map fails, the invocation's verdict is failed
\* and neither the venv command, nor the dependency installation, nor the test
\* command is started.
C18_WriteFailureStops ==
    invocation.write_failed =>
        /\ invocation.called
        /\ Has(state, "test_results")
        /\ ~Passed(state)
        /\ ~invocation.ran_create
        /\ ~invocation.ran_deps
        /\ ~invocation.ran_test

C18_Witness ==
    /\ invocation.write_failed
    /\ Has(state, "test_results")
    /\ ~Passed(state)
    /\ DOMAIN Files(state) # {}

\* C19: an invocation that finds the interpreter marker on disk does not run
\* the venv command, so the venv is created at most once over the successive
\* invocations; every Python invocation that wrote its files and has an
\* environment runs the dependency installation again.
C19_VenvCreatedOnce ==
    /\ env_created <= 1
    /\ (invocation.called /\ invocation.had_venv) => ~invocation.ran_create
    /\ (/\ invocation.called
        /\ ~invocation.write_failed
        /\ venv
        /\ Get(Get(state, "tech_decisions", EmptyDict), "language", "python") = "python")
            => invocation.ran_deps

C19_Witness ==
    /\ env_created = 1
    /\ steps >= 2
    /\ invocation.called
    /\ invocation.had_venv
    /\ invocation.ran_deps
    /\ ~invocation.ran_create

\* C20: no two sandbox invocations for the same project are in progress at
\* the same time, also when they belong to two parallel build requests, and
\* a project's directory is written only by builds of that project.
C20_NoConcurrentSandbox ==
    /\ \A r1, r2 \in Requests :
          (r1 # r2 /\ InSandbox(r1) /\ InSandbox(r2)) =>
              builds.req[r1].project # builds.req[r2].project
    /\ \A d \in Projects : \A r \in builds.wrote[d] :
          project_path(builds.req[r].project) = d

----------------------------------------------------------------------------
(* Claims C21..C30 *)

IsPrefix(s, t) == Len(s) <= Len(t) /\ SubSeq(t, 1, Len(s)) = s

\* C21: the errors list of a run is append-only: a step never removes the
\* errors key, and the list before the step is a prefix of the list after it.
C21_ErrorsAppendOnly ==
    [][Has(state, "errors") =>
          /\ Has(state', "errors")
          /\ IsPrefix(state["errors"], state'["errors"])]_vars

\* number of coder steps of the run so far; all but the first are
\* self-corrections
CoderRuns == Cardinality({i \in DOMAIN trace : trace[i] = "coder"})

\* C22: once a failed verification has been routed back to the coder, every
\* further failed verification under the limit is routed to the debugger, and
\* the coder runs as self-correction at most once in a run.
C22_CoderSelfCorrectsOnce ==
    [][/\ (pc = "route" /\ CoderRuns >= 2 /\ ~Passed(state) /\ Iter(state) < Ceiling)
            => lastRoute' = "debugger"
       /\ CoderRuns <= 2]_vars

\* the debugger's generation call failed or its response holds no file block
Unproductive(llm) == llm.raises \/ parse_debugger_output(llm.content) = EmptyDict

\* the step from state to state' is a call of debugger_agent with outcome llm
DebuggerStepWith(llm) ==
    /\ trace' = Append(trace, "debugger")
    /\ state' = dict_update(state, debugger_agent(state, llm).update)
    /\ pc' = IF debugger_agent(state, llm).raised THEN "raised" ELSE "returned"

\* C23: a debugger call whose response holds no file block, or whose
\* generation call fails, returns without raising, leaves the files map as it
\* was and increases the iteration counter by one.
C23_EmptyRepairCountsAsCycle ==
    [][(pc = "call" /\ \E llm \in LLMOutcomes : Unproductive(llm) /\ DebuggerStepWith(llm))
          => /\ pc' = "returned"
             /\ Files(state') = Files(state)
             /\ Iter(state') = Iter(state) + 1]_vars

\* C24: whenever an invocation has run the test command, the generated files
\* in the project directory are exactly the entries of the files map that
\* invocation was given: nothing left by an earlier iteration or run remains.
C24_DiskIsFilesMap ==
    (invocation.called /\ invocation.ran_test) => disk = invocation.files

\* C25: an invocation whose file writing fails leaves the project directory
\* as it was before the invocation.
C25_FailedWriteAppliesNothing ==
    [][(steps' = steps + 1 /\ invocation'.write_failed) => disk' = disk]_vars

\* the most recent tester step called the sandbox and its write loop raised
\* (for Python and Node projects the only exception before the test command)
WriteFailed ==
    /\ sandbox.called
    /\ sandbox.raised
    /\ ~sandbox.ran_test
    /\ Get(Get(state, "tech_decisions", EmptyDict), "language", "python")
          \in {"python", "node"}

\* C26: after a tester step whose file writing failed, the failure is an entry
\* of the errors list and the run ends: the router does not send the run to a
\* repair step.
C26_WriteFailureEndsRun ==
    WriteFailed =>
        /\ Get(state, "errors", <<>>) # <<>>
        /\ pc \in {"route", "END", "done", "save_failed"}

\* the state dicts a router evaluation is compared with: those of CallStates
\* with no files and no technology decisions (every verdict, every counter)
RoutingPeers ==
    {s \in CallStates : s["files"] = EmptyDict /\ s["tech_decisions"] = EmptyDict}

\* C27: the router's result is determined by (tests_passed, iteration
\* counter): at every router evaluation, every state dict that agrees with the
\* evaluated state on these two values gets the result the evaluation gave,
\* whatever its files, errors, verdict log or the function that ran last.
C27_RouteByVerdictAndCounter ==
    [][RouterStep =>
          \A s \in RoutingPeers :
              (Passed(s) = Passed(state) /\ Iter(s) = Iter(state))
                  => check_test_results(s) = lastRoute']_vars

C27_Witness ==
    /\ pc = "coder"
    /\ lastRoute = "coder"
    /\ Has(state, "errors")
    /\ Get(Get(state, "test_results", EmptyDict), "output", "") = "pip log"

\* the node that ran last in the run, or "none"
LastNode == IF trace = <<>> THEN "none" ELSE trace[Len(trace)]

\* C28: a run is at END only directly after a tester step: after a coder or
\* debugger step the tester is the scheduled node (unless the superstep
\* budget cuts the run off), so no repair reaches END unverified.
C28_EndOnlyAfterTester ==
    /\ pc \in {"END", "done", "save_failed"} => LastNode = "tester"
    /\ LastNode \in {"coder", "debugger"} => pc \in {"tester", "raised"}

C28_Witness ==
    /\ pc = "done"
    /\ repairs >= 1
    /\ LastNode = "tester"

\* C29: when the latest verdict is passed, and so when the run has ended with
\* tests_passed true, the files map of the state equals the map that was given
\* to the sandbox invocation that passed; that map is what the save wrote.
C29_FinalFilesAreTestedFiles ==
    /\ Passed(state) => (invocation.called /\ Files(state) = invocation.files)
    /\ pc \in {"done", "save_failed"} => Passed(state)
    /\ pc = "done" => Restrict(disk, DOMAIN invocation.files) = invocation.files

C29_Witness ==
    /\ pc = "done"
    /\ steps = 2
    /\ DOMAIN Files(state) = Paths
    /\ Restrict(disk, DOMAIN invocation.files) = invocation.files

\* C30: for every raw text the three extractors return the same map: what
\* one extractor returned for an input is what each of the others returns
\* for that input.
C30_ExtractorsAgree ==
    pc = "extracted" =>
        \A by \in {"coder", "tester", "debugger"} :
            ExtractorOf(by, extracted.input) = extracted.out

----------------------------------------------------------------------------
(* Claims C31..C32: the order of the blocks and the quotes around a         *)
(* block's content, under SpecExtract.                                      *)

\* the matches an extractor iterates over: the debugger's extractor matches
\* the text after its whole-text newline fix
MatchesSeen(by, t) == IF by = "debugger" THEN findall(FixNewlines(t)) ELSE findall(t)

\* what an extractor stores for one match's content
ContentBy(by, content) ==
    CASE by = "coder" -> sanitize_content(content)
      [] by = "tester" -> sanitize_content_tester(content)
      [] by = "debugger" -> StripQuotes(strip(content))

IsTag(c) == c \in OpenTags \/ c = CloseTag

TagsOf(t) == SelectSeq(t, IsTag)

\* every opening tag is closed before the next one opens
WellFormed(t) ==
    \A tags \in {TagsOf(t)} :
        /\ Len(tags) % 2 = 0
        /\ \A k \in 1..Len(tags) : (tags[k] \in OpenTags) <=> (k % 2 = 1)

\* C31: within one extraction call the blocks are taken in document order
\* (in a text whose blocks are well formed, the k-th match is the k-th
\* opening tag's block), the extracted map has exactly the paths of the
\* matches, and a path that occurs in several blocks holds the content of
\* its last occurrence.
C31_LastOccurrenceWins ==
    pc = "extracted" =>
        \A ms \in {MatchesSeen(extracted.by, raw)} :
            /\ WellFormed(raw) =>
                \A tags \in {TagsOf(raw)} :
                    /\ Len(ms) * 2 = Len(tags)
                    /\ \A k \in 1..Len(ms) : ms[k].path = PathOf(tags[2 * k - 1])
            /\ DOMAIN extracted.out.files = {ms[i].path : i \in 1..Len(ms)}
            /\ \A i \in 1..Len(ms) :
                  LastOfPath(ms, i) =>
                      extracted.out.files[ms[i].path] =
                          ContentBy(extracted.by, ms[i].content)

C31_Witness ==
    /\ pc = "extracted"
    /\ WellFormed(raw)
    /\ LET ms == MatchesSeen(extracted.by, raw)
       IN  /\ Len(ms) = 2
           /\ ms[1].path = ms[2].path
           /\ ms[1].content = <<>>
           /\ ms[2].content = <<"n">>
           /\ extracted.out.files = [p \in {ms[2].path} |-> <<"n">>]

\* a quote character and the character that closes it
Closer(c) == IF c = "lq" THEN "rq" ELSE c

IsQuote(c) == c \in {"q", "sq", "lq", "rq"}

IsOpener(c) == c \in {"q", "sq", "lq"}

\* the content begins with a quote character and ends with its closer
QuoteEnded(c) == Len(c) >= 1 /\ IsOpener(c[1]) /\ c[Len(c)] = Closer(c[1])

\* the entire content is one wrapped pair: quote, quote-free body, closer
OneWrappedPair(c) ==
    /\ Len(c) >= 2
    /\ QuoteEnded(c)
    /\ \A i \in 2..(Len(c) - 1) : ~IsQuote(c[i])

\* a text that is one block whose content is made of quote characters and
\* letters only, so that stripping whitespace and the newline fix are no-ops
OneQuoteBlock(t) ==
    /\ Len(t) >= 2
    /\ t[1] = "<file path=a>"
    /\ t[Len(t)] = CloseTag
    /\ \A i \in 2..(Len(t) - 1) : t[i] \in QuoteTokens

\* C32: the extractor removes exactly one layer of quotes from a block's
\* content that is one wrapped pair of straight or curly quotes, and leaves
\* unchanged a lone quote character and any content that does not begin and
\* end with a matching pair.
C32_QuotesStrippedOnlyWhenWrapped ==
    (pc = "extracted" /\ OneQuoteBlock(raw)) =>
        \A c \in {SubSeq(raw, 2, Len(raw) - 1)} :
            /\ DOMAIN extracted.out.files = {"a"}
            /\ OneWrappedPair(c) =>
                  extracted.out.files["a"] = SubSeq(c, 2, Len(c) - 1)
            /\ (Len(c) = 1 \/ ~QuoteEnded(c)) => extracted.out.files["a"] = c

====
